---- MODULE Spec2Model ----
(***************************************************************************)
(* data/macos/bundle.py: the cx_Freeze packaging script of Carla.          *)
(*                                                                         *)
(* The script is straight-line module code.  A run is modelled statement   *)
(* by statement: pc is the line of the next statement to execute, the      *)
(* module globals are variables, and the process environment, the version  *)
(* imported from carla_host and the files on disk are inputs chosen when   *)
(* the interpreter starts.  Run starts the script again, so that two runs  *)
(* can be compared.                                                        *)
(*                                                                         *)
(* Python values: None is PyNone, the str s is PyStr(s); a dict is a       *)
(* function on its keys; a list or tuple is a sequence.                    *)
(***************************************************************************)
EXTENDS Integers, Sequences, FiniteSets, TLC

VARIABLES
    environ,      \* os.environ restricted to SCRIPT_NAME: a function on a subset of {"SCRIPT_NAME"}
    files,        \* the paths that exist on disk when the packaging tool runs
    VERSION,      \* carla_host.VERSION as imported on line 13
    pc,           \* the next statement of the script
    SCRIPT_NAME,  \* module global, line 17
    options,      \* module global, lines 19-24
    boptions,     \* module global, lines 26-31
    executables,  \* the list built on line 37
    setupCalls,   \* the keyword arguments of each setup(...) invocation of this run
    trace,        \* the calls and tests of this run in order, each with the Python value it read or used
    exit,         \* how the run ended: "running", "ok", "tool_error", "script_error"
    prev          \* <<>> or <<r>>, r the SCRIPT_NAME, VERSION, setup arguments and outcome of the previous run

vars == <<environ, files, VERSION, pc, SCRIPT_NAME, options, boptions,
          executables, setupCalls, trace, exit, prev>>

----------------------------------------------------------------------------
(* Python values *)

PyNone == [type |-> "NoneType"]

PyStr(s) == [type |-> "str", value |-> s]

\* A global that no statement has assigned yet.
Unbound == [type |-> "<unbound>"]

\* str(v), as the %s conversion applies it: a str is itself, None is "None".
PyToStr(v) == IF v.type = "str" THEN v.value ELSE "None"

\* prefix + "%s" + suffix, formatted with v:  (prefix "%s" suffix) % v
PctS(prefix, suffix, v) == prefix \o PyToStr(v) \o suffix

\* d = {k: v}: rebinding the dict instead of storing into it.
DictSetReplacing(d, k, v) == (k :> v)

\* d[k] = v on a dict: the other keys keep their values.
DictSet(d, k, v) == [x \in DOMAIN d \cup {k} |-> IF x = k THEN v ELSE d[x]]

----------------------------------------------------------------------------
(* The inputs of a run *)

\* Values SCRIPT_NAME takes in the environment when it is set.
EnvValues == {"Carla", "Carla-Control", "", "carla", "CARLA-CONTROL", "None"}

Environs == {<<>>} \cup {("SCRIPT_NAME" :> s) : s \in EnvValues}

Versions == {"2.5.0", "2.6.0-alpha1"}

\* Files that may or may not be present under ./source/frontend.
FrontendFiles ==
    { "./source/frontend/Carla.pyw",
      "./source/frontend/Carla-Control.pyw",
      "./source/frontend/carla.pyw" }

\* Metadata files that may or may not be present under ./data/macos.
PlistFiles == { "./data/macos/Carla_Info.plist" }

\* os.getenv(key): the value, or None when the variable is unset.
getenv(key) == IF key \in DOMAIN environ THEN PyStr(environ[key]) ELSE PyNone

----------------------------------------------------------------------------
(* The expressions of the script *)

\* lines 19-24
OptionsLiteral ==
    [ zip_include_packages |-> <<"*">>,
      zip_exclude_packages |-> <<"PyQt5">>,
      replace_paths        |-> << <<"*", "@executable_path/">> >>,
      optimize             |-> TRUE ]

\* lines 26-28
BOptionsLiteral == [ iconfile |-> "./resources/ico/carla.icns" ]

\* SCRIPT_NAME is not None: a test of presence instead of membership.
IsRecognizedAnyStr(v) == v.type = "str"

\* line 30: SCRIPT_NAME in ("Carla", "Carla-Control")
IsRecognized(v) == v \in {PyStr("Carla"), PyStr("Carla-Control")}

\* The metadata path with the name written out instead of formatted in.
InfoPlistPathFixed(v) == "./data/macos/Carla_Info.plist"

\* line 31: "./data/macos/%s_Info.plist" % SCRIPT_NAME
InfoPlistPath(v) == PctS("./data/macos/", "_Info.plist", v)

\* The executable path with None formatted as the empty string: (SCRIPT_NAME or "").
ExecutablePathNoNone(v) ==
    "./source/frontend/" \o (IF v.type = "str" THEN v.value ELSE "") \o ".pyw"

\* line 37: "./source/frontend/%s.pyw" % SCRIPT_NAME
ExecutablePath(v) == PctS("./source/frontend/", ".pyw", v)

\* line 37: Executable(script); the constructor stores the path it is given.
Executable(script) == [script |-> script]

\* The keyword arguments with the bundle named after the script: name = SCRIPT_NAME.
SetupKwargsNamedByScript ==
    [ name        |-> PyToStr(SCRIPT_NAME),
      version     |-> VERSION,
      description |-> "Carla Plugin Host",
      options     |-> [build_exe |-> options, bdist_mac |-> boptions],
      executables |-> executables ]

\* lines 33-37: the keyword arguments of setup(...)
SetupKwargs ==
    [ name        |-> "Carla",
      version     |-> VERSION,
      description |-> "Carla Plugin Host",
      options     |-> [build_exe |-> options, bdist_mac |-> boptions],
      executables |-> executables ]

\* cx_Freeze's setup: bundling fails when an executable's script is not on disk.
ToolFails(kwargs) ==
    \E i \in 1..Len(kwargs.executables) : kwargs.executables[i].script \notin files

----------------------------------------------------------------------------
(* The state when the interpreter starts the script *)

Fresh ==
    /\ pc = "L17"
    /\ SCRIPT_NAME = Unbound
    /\ options = Unbound
    /\ boptions = Unbound
    /\ executables = <<>>
    /\ setupCalls = <<>>
    /\ trace = <<>>
    /\ exit = "running"

Init ==
    /\ environ \in Environs
    /\ files \in SUBSET (FrontendFiles \cup PlistFiles)
    /\ VERSION \in Versions
    /\ prev = <<>>
    /\ Fresh

----------------------------------------------------------------------------
(* The statements *)

\* SCRIPT_NAME = environ["SCRIPT_NAME"]: a lookup that raises KeyError when unset.
ReadEnvOrKeyError ==
    /\ pc = "L17"
    /\ trace' = Append(trace, [op |-> "getenv", val |-> getenv("SCRIPT_NAME")])
    /\ IF "SCRIPT_NAME" \in DOMAIN environ
       THEN /\ SCRIPT_NAME' = PyStr(environ["SCRIPT_NAME"])
            /\ pc' = "L19"
            /\ exit' = exit
       ELSE /\ SCRIPT_NAME' = SCRIPT_NAME
            /\ pc' = "end"
            /\ exit' = "script_error"
    /\ UNCHANGED <<environ, files, VERSION, options, boptions, executables, setupCalls, prev>>

\* line 17: SCRIPT_NAME = getenv("SCRIPT_NAME")
ReadEnv ==
    /\ pc = "L17"
    /\ SCRIPT_NAME' = getenv("SCRIPT_NAME")
    /\ trace' = Append(trace, [op |-> "getenv", val |-> getenv("SCRIPT_NAME")])
    /\ pc' = "L19"
    /\ UNCHANGED <<environ, files, VERSION, options, boptions, executables, setupCalls, exit, prev>>

\* lines 19-24: options = {...}
AssignOptions ==
    /\ pc = "L19"
    /\ options' = OptionsLiteral
    /\ pc' = "L26"
    /\ UNCHANGED <<environ, files, VERSION, SCRIPT_NAME, boptions, executables, setupCalls, trace, exit, prev>>

\* lines 26-28: boptions = {...}
AssignBOptions ==
    /\ pc = "L26"
    /\ boptions' = BOptionsLiteral
    /\ pc' = "L30"
    /\ UNCHANGED <<environ, files, VERSION, SCRIPT_NAME, options, executables, setupCalls, trace, exit, prev>>

\* The branch with an else arm that rejects an unrecognized name.
BranchOrRaise ==
    /\ pc = "L30"
    /\ trace' = Append(trace, [op |-> "if", val |-> SCRIPT_NAME])
    /\ IF IsRecognized(SCRIPT_NAME)
       THEN /\ boptions' = DictSet(boptions, "custom_info_plist", InfoPlistPath(SCRIPT_NAME))
            /\ pc' = "L33"
            /\ exit' = exit
       ELSE /\ boptions' = boptions
            /\ pc' = "end"
            /\ exit' = "script_error"
    /\ UNCHANGED <<environ, files, VERSION, SCRIPT_NAME, options, executables, setupCalls, prev>>

\* The branch testing getenv("SCRIPT_NAME") anew instead of the global.
BranchRereadingEnv ==
    /\ pc = "L30"
    /\ trace' = trace \o << [op |-> "getenv", val |-> getenv("SCRIPT_NAME")],
                            [op |-> "if", val |-> getenv("SCRIPT_NAME")] >>
    /\ boptions' = IF IsRecognized(getenv("SCRIPT_NAME"))
                   THEN DictSet(boptions, "custom_info_plist", InfoPlistPath(SCRIPT_NAME))
                   ELSE boptions
    /\ pc' = "L33"
    /\ UNCHANGED <<environ, files, VERSION, SCRIPT_NAME, options, executables, setupCalls, exit, prev>>

\* The branch storing the metadata path into options instead of boptions.
BranchWrongDict ==
    /\ pc = "L30"
    /\ trace' = Append(trace, [op |-> "if", val |-> SCRIPT_NAME])
    /\ options' = IF IsRecognized(SCRIPT_NAME)
                  THEN DictSet(options, "custom_info_plist", InfoPlistPath(SCRIPT_NAME))
                  ELSE options
    /\ pc' = "L33"
    /\ UNCHANGED <<environ, files, VERSION, SCRIPT_NAME, boptions, executables, setupCalls, exit, prev>>

\* The branch attaching the metadata path only when that file is on disk.
BranchIfPlistExists ==
    /\ pc = "L30"
    /\ trace' = Append(trace, [op |-> "if", val |-> SCRIPT_NAME])
    /\ boptions' = IF IsRecognized(SCRIPT_NAME) /\ InfoPlistPath(SCRIPT_NAME) \in files
                   THEN DictSet(boptions, "custom_info_plist", InfoPlistPath(SCRIPT_NAME))
                   ELSE boptions
    /\ pc' = "L33"
    /\ UNCHANGED <<environ, files, VERSION, SCRIPT_NAME, options, executables, setupCalls, exit, prev>>

\* lines 30-31: if SCRIPT_NAME in (...): boptions["custom_info_plist"] = ...
Branch ==
    /\ pc = "L30"
    /\ trace' = Append(trace, [op |-> "if", val |-> SCRIPT_NAME])
    /\ boptions' = IF IsRecognized(SCRIPT_NAME)
                   THEN DictSet(boptions, "custom_info_plist", InfoPlistPath(SCRIPT_NAME))
                   ELSE boptions
    /\ pc' = "L33"
    /\ UNCHANGED <<environ, files, VERSION, SCRIPT_NAME, options, executables, setupCalls, exit, prev>>

\* line 37: the argument executables = [Executable(...)] is evaluated before the call
MakeExecutables ==
    /\ pc = "L33"
    /\ executables' = << Executable(ExecutablePath(SCRIPT_NAME)) >>
    /\ trace' = Append(trace, [op |-> "Executable", val |-> SCRIPT_NAME])
    /\ pc' = "L33call"
    /\ UNCHANGED <<environ, files, VERSION, SCRIPT_NAME, options, boptions, setupCalls, exit, prev>>

\* lines 33-37: setup(...); the script ends when setup returns or raises
CallSetup ==
    /\ pc = "L33call"
    /\ setupCalls' = Append(setupCalls, SetupKwargs)
    /\ trace' = Append(trace, [op |-> "setup", val |-> PyStr(SetupKwargs.name)])
    /\ exit' = IF ToolFails(SetupKwargs) THEN "tool_error" ELSE "ok"
    /\ pc' = "end"
    /\ UNCHANGED <<environ, files, VERSION, SCRIPT_NAME, options, boptions, executables, prev>>

\* The script is run again, in an environment of the caller's choosing.
Run ==
    /\ pc = "end"
    /\ prev' = << [environ |-> environ, VERSION |-> VERSION, exit |-> exit, setupCalls |-> setupCalls] >>
    /\ environ' \in Environs
    /\ files' \in SUBSET (FrontendFiles \cup PlistFiles)
    /\ VERSION' \in Versions
    /\ pc' = "L17"
    /\ SCRIPT_NAME' = Unbound
    /\ options' = Unbound
    /\ boptions' = Unbound
    /\ executables' = <<>>
    /\ setupCalls' = <<>>
    /\ trace' = <<>>
    /\ exit' = "running"

Next ==
    \/ ReadEnv
    \/ AssignOptions
    \/ AssignBOptions
    \/ Branch
    \/ MakeExecutables
    \/ CallSetup
    \/ Run

Spec == Init /\ [][Next]_vars

----------------------------------------------------------------------------
(* Properties *)

\* setup has been invoked in this run.
Called == Len(setupCalls) >= 1

\* The keyword arguments setup was invoked with.
Kw == setupCalls[1]

\* SCRIPT_NAME is set to s in the environment.
EnvIs(s) == "SCRIPT_NAME" \in DOMAIN environ /\ environ["SCRIPT_NAME"] = s

EnvUnset == "SCRIPT_NAME" \notin DOMAIN environ

EnvRecognized == EnvIs("Carla") \/ EnvIs("Carla-Control")

\* C1: with SCRIPT_NAME "Carla" (resp. "Carla-Control") in the environment, setup
\* receives bdist_mac option custom_info_plist "./data/macos/Carla_Info.plist"
\* (resp. "./data/macos/Carla-Control_Info.plist").
C1_InfoPlistForRecognized ==
    Called =>
        /\ EnvIs("Carla") =>
              /\ "custom_info_plist" \in DOMAIN Kw.options.bdist_mac
              /\ Kw.options.bdist_mac["custom_info_plist"] = "./data/macos/Carla_Info.plist"
        /\ EnvIs("Carla-Control") =>
              /\ "custom_info_plist" \in DOMAIN Kw.options.bdist_mac
              /\ Kw.options.bdist_mac["custom_info_plist"] = "./data/macos/Carla-Control_Info.plist"

C1_Witness ==
    /\ Called
    /\ EnvIs("Carla-Control")
    /\ "custom_info_plist" \in DOMAIN Kw.options.bdist_mac
    /\ Kw.options.bdist_mac["custom_info_plist"] = "./data/macos/Carla-Control_Info.plist"

\* C2: for every other SCRIPT_NAME (unset, empty, differing in case, ...), the
\* bdist_mac options setup receives have no custom_info_plist key.
C2_NoInfoPlistOtherwise ==
    (Called /\ ~EnvRecognized) => "custom_info_plist" \notin DOMAIN Kw.options.bdist_mac

C2_Witness ==
    /\ Called
    /\ EnvIs("carla")
    /\ "custom_info_plist" \notin DOMAIN Kw.options.bdist_mac

\* C3: setup receives the executable path "./source/frontend/<SCRIPT_NAME>.pyw",
\* <SCRIPT_NAME> being the text of the value read from the environment: the
\* variable's string when it is set, and "None" (the text of None) when it is unset.
C3_ExecutablePath ==
    Called =>
        /\ Len(Kw.executables) = 1
        /\ Kw.executables[1].script =
              IF EnvUnset
              THEN "./source/frontend/None.pyw"
              ELSE "./source/frontend/" \o environ["SCRIPT_NAME"] \o ".pyw"

C3_Witness ==
    /\ Called
    /\ EnvUnset
    /\ Kw.executables[1].script = "./source/frontend/None.pyw"

\* C4: the iconfile option is "./resources/ico/carla.icns" from its assignment on,
\* in particular in the bdist_mac options setup receives, whether or not the
\* branch attached the metadata path.
C4_IconFile ==
    /\ pc \in {"L30", "L33", "L33call", "end"} =>
          /\ "iconfile" \in DOMAIN boptions
          /\ boptions["iconfile"] = "./resources/ico/carla.icns"
    /\ Called =>
          /\ "iconfile" \in DOMAIN Kw.options.bdist_mac
          /\ Kw.options.bdist_mac["iconfile"] = "./resources/ico/carla.icns"

C4_Witness ==
    /\ Called
    /\ EnvIs("Carla")
    /\ "custom_info_plist" \in DOMAIN Kw.options.bdist_mac
    /\ Kw.options.bdist_mac["iconfile"] = "./resources/ico/carla.icns"

C6_NoValidationNoRetry ==
    /\ exit # "script_error"
    /\ Len(setupCalls) <= 1
    /\ pc = "end" => (Called /\ exit \in {"ok", "tool_error"})
    /\ exit = "tool_error" => (Called /\ pc = "end" /\ trace[Len(trace)].op = "setup")

C6_Witness ==
    /\ pc = "end"
    /\ EnvUnset
    /\ Called
    /\ Kw.executables[1].script \notin files
    /\ exit = "tool_error"

\* C7: setup receives name "Carla" and the imported VERSION, whatever SCRIPT_NAME is.
C7_NameAndVersion ==
    Called => (Kw.name = "Carla" /\ Kw.version = VERSION)

C7_Witness ==
    /\ Called
    /\ EnvIs("Carla-Control")
    /\ Kw.name = "Carla"
    /\ Kw.version = "2.6.0-alpha1"

\* C8: a run invokes setup exactly once, after the one read of SCRIPT_NAME and
\* after the branch; the branch tests and the executable path uses the value read.
C8_OneReadOneSetup ==
    /\ Len(setupCalls) <= 1
    /\ Cardinality({i \in 1..Len(trace) : trace[i].op = "getenv"}) <= 1
    /\ Called =>
          /\ Len(trace) = 4
          /\ trace[1].op = "getenv"
          /\ trace[2].op = "if"
          /\ trace[3].op = "Executable"
          /\ trace[4].op = "setup"
          /\ trace[2].val = trace[1].val
          /\ trace[3].val = trace[1].val
    /\ pc = "end" => Called

C8_Witness ==
    /\ pc = "end"
    /\ Len(setupCalls) = 1
    /\ Len(trace) = 4
    /\ trace[1].val = PyStr("Carla")
    /\ trace[4].op = "setup"

\* C9: the build_exe options setup receives are the four literal options, whatever
\* SCRIPT_NAME is; the branch leaves them as assigned.
C9_BuildExeOptions ==
    /\ pc \in {"L26", "L30", "L33", "L33call", "end"} =>
          options = [ zip_include_packages |-> <<"*">>,
                      zip_exclude_packages |-> <<"PyQt5">>,
                      replace_paths        |-> << <<"*", "@executable_path/">> >>,
                      optimize             |-> TRUE ]
    /\ Called =>
          /\ DOMAIN Kw.options.build_exe =
                {"zip_include_packages", "zip_exclude_packages", "replace_paths", "optimize"}
          /\ Kw.options.build_exe["zip_include_packages"] = <<"*">>
          /\ Kw.options.build_exe["zip_exclude_packages"] = <<"PyQt5">>
          /\ Kw.options.build_exe["replace_paths"] = << <<"*", "@executable_path/">> >>
          /\ Kw.options.build_exe["optimize"] = TRUE

C9_Witness ==
    /\ Called
    /\ EnvIs("Carla")
    /\ "custom_info_plist" \in DOMAIN Kw.options.bdist_mac
    /\ Kw.options.build_exe["zip_exclude_packages"] = <<"PyQt5">>

\* C10: two runs with the same SCRIPT_NAME and the same VERSION invoke setup with
\* the same arguments, and the executable list holds exactly one executable.
C10_ArgumentsDetermined ==
    /\ Called => Len(Kw.executables) = 1
    /\ (Called /\ prev # <<>> /\ prev[1].environ = environ /\ prev[1].VERSION = VERSION) =>
          prev[1].setupCalls = setupCalls

C10_Witness ==
    /\ Called
    /\ prev # <<>>
    /\ prev[1].environ = environ
    /\ prev[1].VERSION = VERSION
    /\ prev[1].exit # exit
    /\ EnvIs("Carla")
    /\ prev[1].setupCalls = setupCalls

====
